---- MODULE Spec2Model ----
(***************************************************************************)
(* A model of PL-Fairscale:                                                *)
(*   - the precision adapter ShardedMixedPrecisionPlugin                   *)
(*     (src/pl_fairscale/precision/sharded_amp.py), specification Spec;    *)
(*   - the hooks of the test model TestFSDPModelManualWrapped              *)
(*     (tests/test_ddp_fully_sharded.py), specification SpecHooks;         *)
(*   - the strategy test harness of the same file, specification           *)
(*     SpecHarness.                                                        *)
(***************************************************************************)
EXTENDS Integers, Sequences, FiniteSets, TLC

\* ------------------------------------------------------------------------
\* Bounds
\* ------------------------------------------------------------------------

\* How many clip_grad_by_norm calls one plugin instance receives.
MaxClipCalls == 2

\* The largest clip value tried (clip values are 0 .. MaxClipVal).
MaxClipVal == 2

\* How many hook calls a TestFSDPModelManualWrapped instance receives in SpecHooks.
MaxHookCalls == 5

\* How many batches (batch-end hooks) one trainer entry point runs at most.
MaxBatches == 2

\* ------------------------------------------------------------------------
\* Python values
\* ------------------------------------------------------------------------

\* A Python str and a Python int, kept apart by their type: "16" and 16 are
\* different values (and `16 == "16"` is False in Python).
PyStr(text) == [type |-> "str", repr |-> text]

PyInt(text) == [type |-> "int", repr |-> text]

\* Python's str(): a str is returned as it is, an int as its decimal digits;
\* either way the type is gone and only the text is left.
str(value) == value.repr

\* The precision values the constructor is typed for, Literal["16", 16, "bf16"],
\* and two it is not typed for but nothing stops a caller from passing.
LiteralPrecisions == {PyStr("16"), PyInt("16"), PyStr("bf16")}

Precisions == LiteralPrecisions \cup {PyStr("32"), PyInt("32")}

Devices == {"cuda", "cpu"}

\* Python's None.
None == [cls |-> "NoneType", id |-> "None"]

\* Scaler objects a caller may already hold and pass in.
SuppliedScalers == {[cls |-> "ShardedGradScaler", id |-> "ext1"],
                    [cls |-> "GradScaler", id |-> "ext2"]}

\* The object a call of ShardedGradScaler() returns: a new one, not one of the
\* caller's.
NewShardedGradScaler == [cls |-> "ShardedGradScaler", id |-> "new"]

Optimizers == {"oss1", "oss2"}

ClipVals == 0 .. MaxClipVal

\* ------------------------------------------------------------------------
\* The precision adapter (sharded_amp.py)
\* ------------------------------------------------------------------------

\* Line 29: does the constructor call ShardedGradScaler()?
ConstructsScalerNoStr(precision, scaler) ==
    scaler = None /\ precision = PyStr("16")

ConstructsScaler(precision, scaler) ==
    scaler = None /\ str(precision) = "16"

\* Lines 25-30, ShardedMixedPrecisionPlugin.__init__. The collaborators are
\* the scaler constructor and the base constructor; scalerRaises and
\* baseRaises say whether each raises when called. The result records what
\* the call did: how many scalers it constructed, whether and with what
\* arguments the base constructor was reached, and the error that left it.
ShardedMixedPrecisionPlugin_init_validating(precision, device, scaler, scalerRaises, baseRaises) ==
    IF precision \notin LiteralPrecisions
    THEN [constructed |-> 0, base_called |-> FALSE,
          base_args |-> [precision |-> precision, device |-> device, scaler |-> None],
          error |-> "ShardedMixedPrecisionPlugin"]
    ELSE IF ConstructsScaler(precision, scaler) /\ scalerRaises
    THEN [constructed |-> 0, base_called |-> FALSE,
          base_args |-> [precision |-> precision, device |-> device, scaler |-> None],
          error |-> "ShardedGradScaler"]
    ELSE [constructed |-> IF ConstructsScaler(precision, scaler) THEN 1 ELSE 0,
          base_called |-> TRUE,
          base_args |-> [precision |-> precision, device |-> device,
                         scaler |-> IF ConstructsScaler(precision, scaler)
                                    THEN NewShardedGradScaler ELSE None],
          error |-> IF baseRaises THEN "MixedPrecisionPlugin" ELSE "none"]

ShardedMixedPrecisionPlugin_init(precision, device, scaler, scalerRaises, baseRaises) ==
    IF ConstructsScaler(precision, scaler) /\ scalerRaises
    THEN [constructed |-> 0, base_called |-> FALSE,
          base_args |-> [precision |-> precision, device |-> device, scaler |-> None],
          error |-> "ShardedGradScaler"]
    ELSE [constructed |-> IF ConstructsScaler(precision, scaler) THEN 1 ELSE 0,
          base_called |-> TRUE,
          base_args |-> [precision |-> precision, device |-> device,
                         scaler |-> IF ConstructsScaler(precision, scaler)
                                    THEN NewShardedGradScaler ELSE None],
          error |-> IF baseRaises THEN "MixedPrecisionPlugin" ELSE "none"]

\* Lines 32-33, ShardedMixedPrecisionPlugin.clip_grad_by_norm: the plugin
\* after the call, the calls made on optimizers, the scalers constructed and
\* the error that leaves the call (optimizerRaises: optimizer.clip_grad_norm
\* raises when called).
clip_grad_by_norm_twice(self, optimizer, clip_val, optimizerRaises) ==
    [self |-> self,
     calls |-> <<[optimizer |-> optimizer, method |-> "clip_grad_norm", arg |-> clip_val],
                 [optimizer |-> optimizer, method |-> "clip_grad_norm", arg |-> clip_val]>>,
     constructed |-> 0,
     error |-> IF optimizerRaises THEN "clip_grad_norm" ELSE "none"]

clip_grad_by_norm_rescaling(self, optimizer, clip_val, optimizerRaises) ==
    [self |-> [self EXCEPT !.scaler = None],
     calls |-> <<[optimizer |-> optimizer, method |-> "clip_grad_norm", arg |-> clip_val]>>,
     constructed |-> 0,
     error |-> IF optimizerRaises THEN "clip_grad_norm" ELSE "none"]

clip_grad_by_norm(self, optimizer, clip_val, optimizerRaises) ==
    [self |-> self,
     calls |-> <<[optimizer |-> optimizer, method |-> "clip_grad_norm", arg |-> clip_val]>>,
     constructed |-> 0,
     error |-> IF optimizerRaises THEN "clip_grad_norm" ELSE "none"]


\* ------------------------------------------------------------------------
\* The test models (tests/test_ddp_fully_sharded.py)
\* ------------------------------------------------------------------------

\* A torch module with the number of FullyShardedDataParallel wrappers around
\* it (0: not wrapped) and the reshard_after_forward of its wrapper.
Unwrapped == [fsdp |-> 0, reshard_after_forward |-> FALSE]

\* fairscale.nn.wrap, lines 47-48: inside the strategy's wrapping context it
\* returns a FullyShardedDataParallel around the module, configured by the
\* context (reshard_after_forward=True); outside one it returns the module.
wrap(module, in_wrap_context) ==
    IF in_wrap_context
    THEN [fsdp |-> module.fsdp + 1, reshard_after_forward |-> TRUE]
    ELSE module

\* isinstance(module, FullyShardedDataParallel)
IsFSDP(module) == module.fsdp >= 1

\* self.layer = None, line 32.
NoLayer == [present |-> FALSE, outer |-> Unwrapped, inner |-> <<>>]

\* Line 35, _init_model: Sequential(Linear(32, 32), ReLU(), Linear(32, 2)).
\* inner[i + 1] is the Sequential's element i.
init_model == [present |-> TRUE, outer |-> Unwrapped,
               inner |-> <<Unwrapped, Unwrapped, Unwrapped>>]

\* Lines 37-39, TestFSDPModelManualWrapped.setup.
setup(layer) == IF ~layer.present THEN init_model ELSE layer

\* Lines 41-48, TestFSDPModelManualWrapped.configure_sharded_model.
configure_sharded_model_rewrapping(layer, in_wrap_context) ==
    [present |-> TRUE,
     outer |-> wrap(layer.outer, in_wrap_context),
     inner |-> [i \in 1 .. Len(layer.inner) |->
                  IF (i - 1) % 2 = 0 THEN wrap(layer.inner[i], in_wrap_context)
                                     ELSE layer.inner[i]]]

configure_sharded_model_odd(layer, in_wrap_context) ==
    IF IsFSDP(layer.outer)
    THEN layer
    ELSE [present |-> TRUE,
          outer |-> wrap(layer.outer, in_wrap_context),
          inner |-> [i \in 1 .. Len(layer.inner) |->
                       IF (i - 1) % 2 = 1 THEN wrap(layer.inner[i], in_wrap_context)
                                          ELSE layer.inner[i]]]

configure_sharded_model(layer, in_wrap_context) ==
    IF IsFSDP(layer.outer)
    THEN layer
    ELSE [present |-> TRUE,
          outer |-> wrap(layer.outer, in_wrap_context),
          inner |-> [i \in 1 .. Len(layer.inner) |->
                       IF (i - 1) % 2 = 0 THEN wrap(layer.inner[i], in_wrap_context)
                                          ELSE layer.inner[i]]]

\* Lines 50-52, TestFSDPModelManualWrapped.on_load_checkpoint.
on_load_checkpoint(layer) == init_model

\* Lines 69-76, TestFSDPModelManualWrapped._assert_layer_fsdp_instance: TRUE
\* when every assert passes. (Lines 78-81 assert mixed_precision, which the
\* strategy sets on every wrapper alike; it is not modelled.)
assert_layer_fsdp_instance(layer) ==
    /\ layer.present
    /\ IsFSDP(layer.outer)
    /\ IsFSDP(layer.inner[1])
    /\ IsFSDP(layer.inner[3])
    /\ layer.inner[1].reshard_after_forward
    /\ layer.inner[3].reshard_after_forward

\* The two model classes and a new instance of each (lines 30-32, 85-87).
\* wrapped: the strategy has wrapped the whole module (the auto-wrapped class,
\* which has no configure_sharded_model of its own). entries: the trainer
\* entry points the instance was passed to. inits: _init_model calls.
ManualWrapped == "TestFSDPModelManualWrapped"

AutoWrapped == "TestFSDPModelAutoWrapped"

NewInstance(cls) ==
    [cls |-> cls,
     layer |-> IF cls = ManualWrapped THEN NoLayer ELSE init_model,
     wrapped |-> FALSE, entries |-> 0, inits |-> 0]

\* ------------------------------------------------------------------------
\* The test functions (tests/test_ddp_fully_sharded.py)
\* ------------------------------------------------------------------------

\* Lines 126-155, _run_multiple_stages, statement by statement. "renew" is
\*     if model.__class__ is TestFSDPModelAutoWrapped: model = TestFSDPModelAutoWrapped()
\* and "test_ckpt", "predict_ckpt" pass ckpt_path=model_path.
run_multiple_stages_predict_first ==
    <<"fit", "model_path", "predict_ckpt", "save_checkpoint", "assert_save_equality",
      "renew", "test", "renew", "test_ckpt", "renew", "renew", "predict", "renew">>

run_multiple_stages ==
    <<"fit", "model_path", "save_checkpoint", "assert_save_equality",
      "renew", "test",
      "renew", "test_ckpt",
      "renew", "renew", "predict",
      "renew", "predict_ckpt">>

\* Lines 236-240, test_fsdp_rewrap_limitation: fit, then test on the same
\* instance inside pytest.raises(MisconfigurationException).
rewrap_limitation == <<"fit", "test_raises">>

\* Lines 218-221, test_fsdp_gradient_clipping_raises: fit inside
\* pytest.raises(MisconfigurationException).
gradient_clipping_raises == <<"fit_raises">>

\* The tests: the model class each constructs, the statements it runs, the
\* model_path it passes on, and the trainer's gradient_clip_algorithm ("none":
\* no gradient_clip_val). "checkpoint" is test_fully_sharded_strategy_checkpoint
\* (lines 187-198); "stages_auto" calls _run_multiple_stages with the
\* auto-wrapped model its lines 135-154 provide for; "stages_no_path" leaves
\* model_path to its default, None. "clipping_value" is the fit of
\* "clipping_norm" (lines 205-221) with gradient_clip_algorithm="value".
Scenarios ==
    {"checkpoint", "checkpoint_no_path", "stages_auto", "stages_auto_no_path",
     "rewrap_limitation", "clipping_norm", "clipping_value"}

StagesScenarios ==
    {"checkpoint", "checkpoint_no_path", "stages_auto", "stages_auto_no_path"}

ScenarioClass(s) ==
    IF s \in {"stages_auto", "stages_auto_no_path", "rewrap_limitation"}
    THEN AutoWrapped ELSE ManualWrapped

Program(s) ==
    IF s \in StagesScenarios THEN run_multiple_stages
    ELSE IF s = "rewrap_limitation" THEN rewrap_limitation
    ELSE gradient_clipping_raises

\* The model_path argument: os.path.join(tmpdir, "last.ckpt") (line 198) or None.
ModelPathArg(s) ==
    IF s \in {"checkpoint", "stages_auto"} THEN "tmpdir/last.ckpt" ELSE "None"

\* Lines 213-214.
ClipAlgorithm(s) ==
    IF s = "clipping_norm" THEN "norm"
    ELSE IF s = "clipping_value" THEN "value"
    ELSE "none"

\* Line 128: model_path if model_path else trainer.checkpoint_callback.last_model_path
model_path_or_last(path) ==
    IF path # "None" THEN path ELSE "last_model_path"

\* The statements that call a trainer entry point, the entry point each
\* calls, whether it passes ckpt_path=model_path, and whether it stands
\* inside pytest.raises.
EntryStatements ==
    {"fit", "test", "test_ckpt", "predict", "predict_ckpt", "test_raises", "fit_raises"}

EntryFn(stmt) ==
    IF stmt \in {"fit", "fit_raises"} THEN "fit"
    ELSE IF stmt \in {"test", "test_ckpt", "test_raises"} THEN "test"
    ELSE "predict"

PassesCkpt(stmt) == stmt \in {"test_ckpt", "predict_ckpt"}

ExpectsRaise(stmt) == stmt \in {"test_raises", "fit_raises"}

\* Lines 135-136 (and 140-141, 145-149, 153-154): the instance `model` names
\* after the statement; fresh is the instance a constructor call would make.
RenewedModel(cls, model, fresh) ==
    IF cls = AutoWrapped THEN fresh ELSE model

\* The batch-end hooks each entry point runs (lines 57-67).
BatchEndHooks(fn) ==
    IF fn = "fit" THEN {"on_train_batch_end", "on_validation_batch_end"}
    ELSE IF fn = "test" THEN {"on_test_batch_end"}
    ELSE {"on_prediction_batch_end"}

\* ------------------------------------------------------------------------
\* The collaborators the tests pin down
\* ------------------------------------------------------------------------

\* DDPFullyShardedStrategy (pl_fairscale.strategies): an instance the
\* strategy has wrapped itself cannot be set up again. The auto-wrapped class
\* is rejected (lines 236-240); the manually wrapped one, which overrides
\* configure_sharded_model, is passed to fit, test and predict in turn and
\* runs (lines 126, 137, 150: "model is wrapped, will not call
\* configure_shared_model").
RejectsReuseNever(instance) == FALSE

RejectsReuse(instance) ==
    instance.cls = AutoWrapped /\ instance.wrapped

\* FullyShardedMixedPrecisionPlugin (pl_fairscale.precision) under
\* gradient_clip_algorithm="norm": lines 213-221 expect fit to raise
\* MisconfigurationException, "`gradient_clip_algorithm='norm'` is currently
\* not supported for `FullySharded...".
ClipByNormError == "MisconfigurationException"

\* The same under gradient_clip_algorithm="value": no test runs it; the
\* specification has value-based clipping rejected.
ClipByValueError == "MisconfigurationException"

ClippingError(algorithm) ==
    IF algorithm = "norm" THEN ClipByNormError
    ELSE IF algorithm = "value" THEN ClipByValueError
    ELSE "none"

\* ------------------------------------------------------------------------
\* State
\* ------------------------------------------------------------------------

VARIABLES
    \* the precision adapter
    pc,                  \* "new", "constructed" or "failed": the plugin's life
    args,                \* the constructor's arguments and its collaborators' behaviour
    base_called,         \* whether MixedPrecisionPlugin.__init__ was reached
    self,                \* precision, device and scaler the base plugin was handed and holds
    error,               \* the error that left the constructor, or "none"
    scalers_constructed, \* ShardedGradScaler() calls the adapter has made
    opt_calls,           \* every call made on an optimizer, in order
    clip_calls,          \* every clip_grad_by_norm call: its arguments and its error
    \* the test models and test functions
    scenario,            \* the test that runs
    hpc,                 \* the statement of the test's program that runs next
    model,               \* the instance the test's variable `model` names
    model_path,          \* the test's variable model_path
    instances,           \* every model instance constructed so far
    saved,               \* the paths a checkpoint was saved to
    tstage,              \* where the running trainer entry point stands, or "idle"
    tfn,                 \* the running entry point: "fit", "test" or "predict"
    tckpt,               \* whether it was given ckpt_path
    tbatch,              \* the batch-end hooks it has run
    events,              \* the finished trainer calls, in order, with their errors
    outcome,             \* "running", "passed" or "failed"
    hook_calls           \* the hooks called on model instances, in order

adapter_vars == <<pc, args, base_called, self, error, scalers_constructed,
                  opt_calls, clip_calls>>

harness_vars == <<scenario, hpc, model, model_path, instances, saved, tstage, tfn,
                  tckpt, tbatch, events, outcome, hook_calls>>

vars == <<pc, args, base_called, self, error, scalers_constructed, opt_calls,
          clip_calls, scenario, hpc, model, model_path, instances, saved, tstage,
          tfn, tckpt, tbatch, events, outcome, hook_calls>>

NoArgs == [precision |-> PyStr("none"), device |-> "none", scaler |-> None,
           scalerRaises |-> FALSE, baseRaises |-> FALSE]

NoPlugin == [precision |-> PyStr("none"), device |-> "none", scaler |-> None]

\* No plugin constructed yet.
InitAdapter ==
    /\ pc = "new"
    /\ args = NoArgs
    /\ base_called = FALSE
    /\ self = NoPlugin
    /\ error = "none"
    /\ scalers_constructed = 0
    /\ opt_calls = <<>>
    /\ clip_calls = <<>>

\* A test that has constructed its model (lines 187, 205, 236) and trainer;
\* "none": no test runs and no model exists.
InitTest(s) ==
    /\ scenario = s
    /\ hpc = 1
    /\ model = 1
    /\ model_path = ModelPathArg(s)
    /\ instances = IF s = "none" THEN <<>> ELSE <<NewInstance(ScenarioClass(s))>>
    /\ saved = {}
    /\ tstage = "idle"
    /\ tfn = "none"
    /\ tckpt = FALSE
    /\ tbatch = 0
    /\ events = <<>>
    /\ outcome = "running"
    /\ hook_calls = <<>>

\* ------------------------------------------------------------------------
\* The precision adapter's operations
\* ------------------------------------------------------------------------

\* ShardedMixedPrecisionPlugin(precision, device, scaler)
Construct ==
    /\ pc = "new"
    /\ \E precision \in Precisions, device \in Devices,
          scaler \in SuppliedScalers \cup {None},
          scalerRaises \in BOOLEAN, baseRaises \in BOOLEAN :
         LET r == ShardedMixedPrecisionPlugin_init(precision, device, scaler,
                                                   scalerRaises, baseRaises)
         IN /\ args' = [precision |-> precision, device |-> device, scaler |-> scaler,
                        scalerRaises |-> scalerRaises, baseRaises |-> baseRaises]
            /\ base_called' = r.base_called
            /\ self' = IF r.base_called THEN r.base_args ELSE NoPlugin
            /\ error' = r.error
            /\ scalers_constructed' = scalers_constructed + r.constructed
            /\ pc' = IF r.error = "none" THEN "constructed" ELSE "failed"
    /\ UNCHANGED <<opt_calls, clip_calls>>
    /\ UNCHANGED harness_vars

\* plugin.clip_grad_by_norm(optimizer, clip_val); optimizer.clip_grad_norm may
\* raise, and then the error leaves clip_grad_by_norm.
ClipGradByNorm ==
    /\ pc = "constructed"
    /\ Len(clip_calls) < MaxClipCalls
    /\ \E optimizer \in Optimizers, clip_val \in ClipVals, raises \in BOOLEAN :
         LET r == clip_grad_by_norm(self, optimizer, clip_val, raises)
         IN /\ self' = r.self
            /\ opt_calls' = opt_calls \o r.calls
            /\ scalers_constructed' = scalers_constructed + r.constructed
            /\ clip_calls' = Append(clip_calls,
                                    [optimizer |-> optimizer, clip_val |-> clip_val,
                                     optimizerRaises |-> raises, error |-> r.error])
    /\ UNCHANGED <<pc, args, base_called, error>>
    /\ UNCHANGED harness_vars

Next == Construct \/ ClipGradByNorm

Init == InitAdapter /\ InitTest("none")

Spec == Init /\ [][Next]_vars

\* ------------------------------------------------------------------------
\* The hooks of one TestFSDPModelManualWrapped instance, called in any order
\* after a first setup
\* ------------------------------------------------------------------------

Called(hook, in_wrap_context) ==
    Append(hook_calls, [hook |-> hook, model |-> model, in_wrap_context |-> in_wrap_context])

\* The instances with instance m's layer replaced; a layer made by
\* _init_model counts in inits.
WithLayer(m, layer, made) ==
    [instances EXCEPT ![m].layer = layer,
                      ![m].inits = IF made THEN @ + 1 ELSE @]

\* model.setup(stage)
HookSetup ==
    /\ Len(hook_calls) < MaxHookCalls
    /\ instances' = WithLayer(model, setup(instances[model].layer),
                              ~instances[model].layer.present)
    /\ hook_calls' = Called("setup", FALSE)
    /\ UNCHANGED <<scenario, hpc, model, model_path, saved, tstage, tfn, tckpt,
                   tbatch, events, outcome>>
    /\ UNCHANGED adapter_vars

\* model.on_load_checkpoint(checkpoint)
HookOnLoadCheckpoint ==
    /\ Len(hook_calls) < MaxHookCalls
    /\ hook_calls # <<>>
    /\ instances' = WithLayer(model, on_load_checkpoint(instances[model].layer), TRUE)
    /\ hook_calls' = Called("on_load_checkpoint", FALSE)
    /\ UNCHANGED <<scenario, hpc, model, model_path, saved, tstage, tfn, tckpt,
                   tbatch, events, outcome>>
    /\ UNCHANGED adapter_vars

\* model.configure_sharded_model(), inside or outside a wrapping context
HookConfigureShardedModel ==
    /\ Len(hook_calls) < MaxHookCalls
    /\ hook_calls # <<>>
    /\ \E in_wrap_context \in BOOLEAN :
         /\ instances' = WithLayer(model,
                                   configure_sharded_model(instances[model].layer,
                                                           in_wrap_context),
                                   FALSE)
         /\ hook_calls' = Called("configure_sharded_model", in_wrap_context)
    /\ UNCHANGED <<scenario, hpc, model, model_path, saved, tstage, tfn, tckpt,
                   tbatch, events, outcome>>
    /\ UNCHANGED adapter_vars

NextHooks == HookSetup \/ HookOnLoadCheckpoint \/ HookConfigureShardedModel

InitHooks == InitAdapter /\ InitTest("hooks")

SpecHooks == InitHooks /\ [][NextHooks]_vars

\* ------------------------------------------------------------------------
\* The test functions, statement by statement, and the trainer's entry points
\* ------------------------------------------------------------------------

Statement == Program(scenario)[hpc]

Running == outcome = "running" /\ hpc <= Len(Program(scenario))

\* The statement is done: on to the next, and the test passes after the last.
Advance ==
    /\ hpc' = hpc + 1
    /\ outcome' = IF hpc + 1 > Len(Program(scenario)) THEN "passed" ELSE "running"

\* An error leaves the statement and so the test.
Fail ==
    /\ hpc' = hpc
    /\ outcome' = "failed"

Event(op, ckpt, reused, err) ==
    [op |-> op, model |-> model, cls |-> instances[model].cls, ckpt |-> ckpt,
     reused |-> reused, path_saved |-> model_path \in saved, error |-> err]

\* The running entry point ends with err ("none": it returns). Inside
\* pytest.raises(MisconfigurationException) the statement is done exactly when
\* that exception was raised (lines 218-221, 239-240).
EndCall(fn, ckpt, reused, err) ==
    /\ events' = Append(events, Event(fn, ckpt, reused, err))
    /\ tstage' = "idle"
    /\ IF ExpectsRaise(Statement)
       THEN IF err = "MisconfigurationException" THEN Advance ELSE Fail
       ELSE IF err = "none" THEN Advance ELSE Fail

\* trainer.fit(model), trainer.test(model[, ckpt_path]), trainer.predict(model[,
\* ckpt_path]): the call begins, and the strategy refuses an instance it has
\* wrapped before.
StmtEntry ==
    /\ Running
    /\ Statement \in EntryStatements
    /\ tstage = "idle"
    /\ instances' = [instances EXCEPT ![model].entries = @ + 1]
    /\ tfn' = EntryFn(Statement)
    /\ tckpt' = PassesCkpt(Statement)
    /\ tbatch' = 0
    /\ IF RejectsReuse(instances[model])
       THEN EndCall(EntryFn(Statement), PassesCkpt(Statement),
                    instances[model].entries >= 1, "MisconfigurationException")
       ELSE /\ tstage' = "setup"
            /\ UNCHANGED <<hpc, outcome, events>>
    /\ UNCHANGED <<scenario, model, model_path, saved, hook_calls>>
    /\ UNCHANGED adapter_vars

\* The trainer calls model.setup(stage); the auto-wrapped class inherits a
\* setup that does nothing.
TrainerSetup ==
    /\ tstage = "setup"
    /\ instances' = IF instances[model].cls = ManualWrapped
                    THEN WithLayer(model, setup(instances[model].layer),
                                   ~instances[model].layer.present)
                    ELSE instances
    /\ hook_calls' = Called("setup", FALSE)
    /\ tstage' = "restore"
    /\ UNCHANGED <<scenario, hpc, model, model_path, saved, tfn, tckpt, tbatch,
                   events, outcome>>
    /\ UNCHANGED adapter_vars

\* With ckpt_path the trainer loads the checkpoint and calls
\* model.on_load_checkpoint (lines 139, 152: "will create a new unwrapped
\* model and load"); a path nothing was saved to cannot be loaded.
TrainerRestore ==
    /\ tstage = "restore"
    /\ IF tckpt /\ model_path \notin saved
       THEN /\ EndCall(tfn, tckpt, instances[model].entries >= 2, "FileNotFoundError")
            /\ UNCHANGED <<instances, hook_calls>>
       ELSE /\ instances' = IF tckpt /\ instances[model].cls = ManualWrapped
                            THEN WithLayer(model,
                                           on_load_checkpoint(instances[model].layer),
                                           TRUE)
                            ELSE instances
            /\ hook_calls' = IF tckpt THEN Called("on_load_checkpoint", FALSE)
                                      ELSE hook_calls
            /\ tstage' = "configure"
            /\ UNCHANGED <<hpc, outcome, events>>
    /\ UNCHANGED <<scenario, model, model_path, saved, tfn, tckpt, tbatch>>
    /\ UNCHANGED adapter_vars

\* The trainer calls model.configure_sharded_model() inside the strategy's
\* wrapping context (lines 139, 152: "and then call configure_shared_model to
\* wrap"); a model without one is wrapped whole by the strategy.
TrainerConfigure ==
    /\ tstage = "configure"
    /\ instances' = IF instances[model].cls = ManualWrapped
                    THEN WithLayer(model,
                                   configure_sharded_model(instances[model].layer, TRUE),
                                   FALSE)
                    ELSE [instances EXCEPT ![model].wrapped = TRUE]
    /\ hook_calls' = Called("configure_sharded_model", TRUE)
    /\ tstage' = "batch"
    /\ UNCHANGED <<scenario, hpc, model, model_path, saved, tfn, tckpt, tbatch,
                   events, outcome>>
    /\ UNCHANGED adapter_vars

\* What the batch-end hook's asserts find (lines 69-76 and 104-107).
HookAssertsPass(instance) ==
    IF instance.cls = ManualWrapped
    THEN assert_layer_fsdp_instance(instance.layer)
    ELSE instance.wrapped

\* One batch: in fit the gradients are clipped when gradient_clip_val is set,
\* then the batch-end hook runs its asserts.
TrainerBatch ==
    /\ tstage = "batch"
    /\ tbatch < MaxBatches
    /\ IF tfn = "fit" /\ ClippingError(ClipAlgorithm(scenario)) # "none"
       THEN /\ EndCall(tfn, tckpt, instances[model].entries >= 2,
                       ClippingError(ClipAlgorithm(scenario)))
            /\ UNCHANGED <<tbatch, hook_calls>>
       ELSE \E hook \in BatchEndHooks(tfn) :
              /\ hook_calls' = Called(hook, FALSE)
              /\ IF HookAssertsPass(instances[model])
                 THEN /\ tbatch' = tbatch + 1
                      /\ UNCHANGED <<hpc, outcome, events, tstage>>
                 ELSE /\ EndCall(tfn, tckpt, instances[model].entries >= 2,
                                 "AssertionError")
                      /\ UNCHANGED tbatch
    /\ UNCHANGED <<scenario, model, model_path, instances, saved, tfn, tckpt>>
    /\ UNCHANGED adapter_vars

\* The entry point returns after its last batch.
TrainerFinish ==
    /\ tstage = "batch"
    /\ tbatch >= 1
    /\ EndCall(tfn, tckpt, instances[model].entries >= 2, "none")
    /\ UNCHANGED <<scenario, model, model_path, instances, saved, tfn, tckpt, tbatch,
                   hook_calls>>
    /\ UNCHANGED adapter_vars

\* Line 128.
StmtModelPath ==
    /\ Running
    /\ Statement = "model_path"
    /\ model_path' = model_path_or_last(model_path)
    /\ Advance
    /\ UNCHANGED <<scenario, model, instances, saved, tstage, tfn, tckpt, tbatch,
                   events, hook_calls>>
    /\ UNCHANGED adapter_vars

\* Line 130: trainer.save_checkpoint(model_path, weights_only=True)
StmtSaveCheckpoint ==
    /\ Running
    /\ Statement = "save_checkpoint"
    /\ saved' = saved \cup {model_path}
    /\ events' = Append(events, [Event("save_checkpoint", FALSE, FALSE, "none")
                                 EXCEPT !.path_saved = TRUE])
    /\ Advance
    /\ UNCHANGED <<scenario, model, model_path, instances, tstage, tfn, tckpt, tbatch,
                   hook_calls>>
    /\ UNCHANGED adapter_vars

\* Lines 132 and 113-122, _assert_save_equality: on the global-zero rank
\* cls.load_from_checkpoint(ckpt_path) constructs an instance of the model's
\* class and loads the checkpoint into it, which calls its on_load_checkpoint.
\* (The tensors the asserts of line 122 compare are not modelled.)
StmtAssertSaveEquality ==
    /\ Running
    /\ Statement = "assert_save_equality"
    /\ \E is_global_zero \in BOOLEAN :
         LET cls == instances[model].cls
             loaded == IF cls = ManualWrapped
                       THEN [NewInstance(cls) EXCEPT !.layer = on_load_checkpoint(NoLayer),
                                                     !.inits = 1]
                       ELSE NewInstance(cls)
         IN IF is_global_zero /\ model_path \notin saved
            THEN /\ events' = Append(events, Event("assert_save_equality", TRUE, FALSE,
                                                   "FileNotFoundError"))
                 /\ Fail
                 /\ UNCHANGED instances
            ELSE /\ events' = Append(events, Event("assert_save_equality", is_global_zero,
                                                   FALSE, "none"))
                 /\ instances' = IF is_global_zero THEN Append(instances, loaded)
                                                   ELSE instances
                 /\ Advance
    /\ UNCHANGED <<scenario, model, model_path, saved, tstage, tfn, tckpt, tbatch,
                   hook_calls>>
    /\ UNCHANGED adapter_vars

\* Lines 135-136, 140-141, 145-146, 148-149, 153-154.
StmtRenew ==
    /\ Running
    /\ Statement = "renew"
    /\ LET fresh == Len(instances) + 1
           new == RenewedModel(instances[model].cls, model, fresh)
       IN /\ model' = new
          /\ instances' = IF new = fresh
                          THEN Append(instances, NewInstance(AutoWrapped))
                          ELSE instances
    /\ Advance
    /\ UNCHANGED <<scenario, model_path, saved, tstage, tfn, tckpt, tbatch, events,
                   hook_calls>>
    /\ UNCHANGED adapter_vars

NextHarness ==
    \/ StmtEntry
    \/ TrainerSetup
    \/ TrainerRestore
    \/ TrainerConfigure
    \/ TrainerBatch
    \/ TrainerFinish
    \/ StmtModelPath
    \/ StmtSaveCheckpoint
    \/ StmtAssertSaveEquality
    \/ StmtRenew

InitHarness == InitAdapter /\ \E s \in Scenarios : InitTest(s)

SpecHarness == InitHarness /\ [][NextHarness]_vars

\* ------------------------------------------------------------------------
\* Claims about the precision adapter (specification Spec)
\* ------------------------------------------------------------------------

\* C1: whenever the constructor is given a scaler S that is not None, the
\* scaler it hands to the base plugin's constructor is S itself, whatever the
\* precision.
C1_SuppliedScalerIsUsed ==
    (base_called /\ args.scaler # None) => self.scaler = args.scaler

\* C2: the scaler handed to the base plugin is not None exactly when the
\* precision is the string "16" or the integer 16 and no scaler was supplied;
\* it is then a ShardedGradScaler the constructor has just made (not one of the
\* caller's), and under "bf16" the plugin holds no scaler.
C2_ScalerRule ==
    base_called =>
        /\ (self.scaler # None) <=>
               (args.precision \in {PyStr("16"), PyInt("16")} /\ args.scaler = None)
        /\ (self.scaler # None) =>
               /\ self.scaler.cls = "ShardedGradScaler"
               /\ self.scaler \notin SuppliedScalers
               /\ scalers_constructed = 1
        /\ (args.precision = PyStr("bf16")) => self.scaler = None

\* C2's case: the integer 16 without a scaler, and the plugin holds a new one.
C2_Witness ==
    /\ pc = "constructed"
    /\ args.precision = PyInt("16")
    /\ args.scaler = None
    /\ self.scaler = NewShardedGradScaler

\* C3: every clip_grad_by_norm(optimizer, clip_val) makes exactly one call on
\* an optimizer: clip_grad_norm, on the optimizer passed in, with the same
\* clip_val. So the calls made on optimizers are, one for one and in order,
\* the clip_grad_by_norm calls.
C3_ClipForwardedOnce ==
    /\ Len(opt_calls) = Len(clip_calls)
    /\ \A i \in 1 .. Len(clip_calls) :
         opt_calls[i] = [optimizer |-> clip_calls[i].optimizer,
                         method |-> "clip_grad_norm",
                         arg |-> clip_calls[i].clip_val]

\* C3's case: two calls, on different optimizers with different clip values.
C3_Witness ==
    /\ Len(clip_calls) = 2
    /\ clip_calls[1].optimizer # clip_calls[2].optimizer
    /\ clip_calls[1].clip_val # clip_calls[2].clip_val
    /\ Len(opt_calls) = 2

\* C4: the adapter validates nothing. An error leaves the constructor only
\* when the scaler constructor or the base constructor raised it; unless the
\* scaler constructor raised, the base constructor is reached with the
\* precision and the device as given; and an error leaves clip_grad_by_norm
\* only when optimizer.clip_grad_norm raised it.
C4_NoValidation ==
    /\ pc # "new" =>
         /\ error \in {"none", "ShardedGradScaler", "MixedPrecisionPlugin"}
         /\ error = "ShardedGradScaler" => args.scalerRaises
         /\ error = "MixedPrecisionPlugin" => args.baseRaises
         /\ error # "ShardedGradScaler" =>
              /\ base_called
              /\ self.precision = args.precision
              /\ self.device = args.device
    /\ \A i \in 1 .. Len(clip_calls) :
         clip_calls[i].error # "none" => clip_calls[i].optimizerRaises

\* C4's case: a precision outside Literal["16", 16, "bf16"] together with a
\* supplied scaler goes through to the base constructor.
C4_Witness ==
    /\ pc = "constructed"
    /\ args.precision = PyInt("32")
    /\ args.scaler # None
    /\ self.precision = PyInt("32")
    /\ Len(clip_calls) >= 1

\* C5: over a plugin's life the adapter constructs at most one scaler, and
\* once the plugin is constructed no operation constructs another or changes
\* the scaler, the precision or the device the plugin holds.
C5_ScalerConstructedOnce ==
    /\ [](scalers_constructed <= 1)
    /\ [][pc = "constructed" =>
            /\ self' = self
            /\ scalers_constructed' = scalers_constructed]_vars

\* C5's case: a plugin that made its scaler and then clipped MaxClipCalls times.
C5_Witness ==
    /\ pc = "constructed"
    /\ scalers_constructed = 1
    /\ self.scaler = NewShardedGradScaler
    /\ Len(clip_calls) >= 2

\* ------------------------------------------------------------------------
\* Claims about TestFSDPModelManualWrapped's hooks (specification SpecHooks)
\* ------------------------------------------------------------------------

\* C8: after any sequence of setup, on_load_checkpoint and
\* configure_sharded_model calls that starts with setup, the layer and each of
\* its sub-layers has at most one wrapper around it, and a
\* configure_sharded_model call on a layer that is already wrapped changes
\* nothing.
C8_NeverRewrapped ==
    /\ [](\A m \in 1 .. Len(instances) :
            /\ instances[m].layer.outer.fsdp <= 1
            /\ \A i \in 1 .. Len(instances[m].layer.inner) :
                 instances[m].layer.inner[i].fsdp <= 1)
    /\ [][(/\ Len(hook_calls') = Len(hook_calls) + 1
           /\ hook_calls'[Len(hook_calls')].hook = "configure_sharded_model"
           /\ IsFSDP(instances[model].layer.outer))
          => instances' = instances]_vars

\* C8's case: configure_sharded_model called twice in a row inside a wrapping
\* context, the second time on the wrapped layer.
C8_Witness ==
    /\ scenario = "hooks"
    /\ \E i \in 1 .. Len(hook_calls) - 1 :
         /\ hook_calls[i].hook = "configure_sharded_model"
         /\ hook_calls[i].in_wrap_context
         /\ hook_calls[i + 1].hook = "configure_sharded_model"
         /\ hook_calls[i + 1].in_wrap_context
         /\ i + 1 = Len(hook_calls)
    /\ instances[model].layer.outer.fsdp = 1
    /\ instances[model].layer.inner[1].fsdp = 1

\* ------------------------------------------------------------------------
\* Claims about the test harness (specification SpecHarness)
\* ------------------------------------------------------------------------

\* C6: a fit with gradient_clip_val set and gradient_clip_algorithm="norm" ends
\* without an error, and the same fit with value-based clipping ends with a
\* MisconfigurationException.
C6_NormAcceptedValueRejected ==
    \A i \in 1 .. Len(events) :
        events[i].op = "fit" =>
            /\ ClipAlgorithm(scenario) = "norm" => events[i].error = "none"
            /\ ClipAlgorithm(scenario) = "value" =>
                   events[i].error = "MisconfigurationException"

\* C7 as stated: every test or predict call without ckpt_path on an instance
\* that an earlier entry point was given ends with a MisconfigurationException,
\* whatever the model's class.
C7_AnyReuseRejected ==
    \A i \in 1 .. Len(events) :
        (events[i].op \in {"test", "predict"} /\ ~events[i].ckpt /\ events[i].reused)
            => events[i].error = "MisconfigurationException"

\* C7 as amended: every test or predict call without ckpt_path on a
\* TestFSDPModelAutoWrapped instance that an earlier entry point was given ends
\* with a MisconfigurationException.
C7_AutoWrappedReuseRejected ==
    \A i \in 1 .. Len(events) :
        (/\ events[i].op \in {"test", "predict"}
         /\ ~events[i].ckpt
         /\ events[i].reused
         /\ events[i].cls = AutoWrapped)
            => events[i].error = "MisconfigurationException"

\* C7's case: test_fsdp_rewrap_limitation has passed its fitted instance to
\* trainer.test and the call was refused.
C7_Witness ==
    /\ scenario = "rewrap_limitation"
    /\ Len(events) = 2
    /\ events[1].op = "fit" /\ events[1].error = "none"
    /\ events[2].op = "test" /\ events[2].reused /\ events[2].model = events[1].model
    /\ events[2].error = "MisconfigurationException"
    /\ outcome = "passed"

\* C9: whenever a batch-end hook of a TestFSDPModelManualWrapped instance
\* runs, its layer is wrapped, the sub-layers at index 0 and 2 are wrapped with
\* reshard_after_forward true, and the sub-layer at index 1 is not wrapped.
C9_LayerWrappedAtBatchEnd ==
    (tstage = "batch" /\ instances[model].cls = ManualWrapped) =>
        LET layer == instances[model].layer
        IN /\ layer.present
           /\ layer.outer.fsdp >= 1
           /\ layer.inner[1].fsdp >= 1 /\ layer.inner[1].reshard_after_forward
           /\ layer.inner[3].fsdp >= 1 /\ layer.inner[3].reshard_after_forward
           /\ layer.inner[2].fsdp = 0

\* C9's case: a batch-end hook has run in an entry point whose
\* on_load_checkpoint replaced the layer by a second, unwrapped one.
C9_Witness ==
    /\ tstage = "batch"
    /\ tckpt
    /\ tbatch >= 1
    /\ instances[model].cls = ManualWrapped
    /\ instances[model].inits >= 2
    /\ hook_calls[Len(hook_calls)].hook \in BatchEndHooks(tfn)

\* The order _run_multiple_stages is claimed to follow.
StagesOrder ==
    <<[op |-> "fit", ckpt |-> FALSE],
      [op |-> "save_checkpoint", ckpt |-> FALSE],
      [op |-> "assert_save_equality", ckpt |-> FALSE],
      [op |-> "test", ckpt |-> FALSE],
      [op |-> "test", ckpt |-> TRUE],
      [op |-> "predict", ckpt |-> FALSE],
      [op |-> "predict", ckpt |-> TRUE]>>

\* C10: _run_multiple_stages runs fit, save_checkpoint, the save-equality
\* check, test, test from the checkpoint, predict and predict from the
\* checkpoint in this order; whatever loads model_path runs after the
\* checkpoint was saved there; and with the auto-wrapped class every entry
\* point after fit is given an instance no entry point was given before, so
\* none is given to two.
C10_StagesOrder ==
    scenario \in StagesScenarios =>
        /\ Len(events) <= Len(StagesOrder)
        /\ \A i \in 1 .. Len(events) :
             /\ events[i].op = StagesOrder[i].op
             /\ (events[i].op # "assert_save_equality") =>
                    events[i].ckpt = StagesOrder[i].ckpt
             /\ events[i].ckpt => events[i].path_saved
             /\ events[i].error = "none"
             /\ (events[i].cls = AutoWrapped) => ~events[i].reused
        /\ \A m \in 1 .. Len(instances) :
             (instances[m].cls = AutoWrapped) => instances[m].entries <= 1

\* C10's case: _run_multiple_stages has run to its end on the auto-wrapped
\* class, with model_path left to the trainer's last checkpoint.
C10_Witness ==
    /\ scenario = "stages_auto_no_path"
    /\ outcome = "passed"
    /\ Len(events) = 7
    /\ events[7].op = "predict" /\ events[7].ckpt /\ events[7].path_saved
    /\ events[3].ckpt
    /\ model > 1

====
